---- MODULE Spec2Model ----
(***************************************************************************)
(* Model of the collaboration and mutation plane of sandstone-project:     *)
(*   - the Change Engine, POST /api/documents/[id]/changes                 *)
(*     (src/app/api/documents/[id]/changes/route.ts, first handler);       *)
(*   - the Collaboration Hub, the socket.io server                         *)
(*     (src/scripts/add-search-analytics.ts, from line 31);                *)
(*   - the Diff Utility generateChangeRequests (src/lib/textDiff.ts).      *)
(* Texts are sequences of one-character strings; positions are 0-based as  *)
(* in JavaScript.  Every `await pool.query(...)` is one step of its        *)
(* handler, so handlers interleave exactly where the code awaits.          *)
(***************************************************************************)
EXTENDS Integers, Sequences, FiniteSets, TLC

(***************************************************************************)
(* Text primitives (JavaScript String methods)                             *)
(***************************************************************************)

\* t occurs in s at 0-based index i
OccursAt(s, t, i) ==
    /\ i + Len(t) <= Len(s)
    /\ SubSeq(s, i + 1, i + Len(t)) = t

\* String.prototype.indexOf: first index of t in s, or -1
IndexOf(s, t) ==
    IF \E i \in 0..Len(s) : OccursAt(s, t, i)
    THEN CHOOSE i \in 0..Len(s) :
            /\ OccursAt(s, t, i)
            /\ \A j \in 0..(i - 1) : ~OccursAt(s, t, j)
    ELSE -1

\* The replacement-pattern expansion String.prototype.replace applies to a
\* string replacement value.  Over the alphabet of this model the only
\* pattern that can be written is "$$" (a literal dollar sign).
RECURSIVE GetSubstitution(_)
GetSubstitution(n) ==
    IF n = <<>> THEN <<>>
    ELSE IF Len(n) >= 2 /\ n[1] = "$" /\ n[2] = "$"
         THEN <<"$">> \o GetSubstitution(SubSeq(n, 3, Len(n)))
         ELSE <<n[1]>> \o GetSubstitution(Tail(n))

\* String.prototype.replace(string, string): the first occurrence only
JsReplace(s, t, n) ==
    LET p == IndexOf(s, t) IN
    IF p = -1 THEN s
    ELSE SubSeq(s, 1, p) \o GetSubstitution(n) \o SubSeq(s, p + Len(t) + 1, Len(s))

(***************************************************************************)
(* Change Engine: request shapes, validation, replacement                  *)
(***************************************************************************)

\* validateString's maxLength argument at both call sites
MaxStringLength == 1000000

\* validateString(value, name, 0, 1000000): validateRequired rejects the
\* empty string before the length checks are reached
validateString(value) ==
    /\ value # <<>>
    /\ Len(value) >= 0
    /\ Len(value) <= MaxStringLength

Op(t, n) == [textToReplace |-> t, newText |-> n]

\* The parsed JSON body: which of the fields are present, and their values
SingleBody(t, n) ==
    [hasChanges |-> FALSE, changes |-> <<>>,
     hasSingle |-> TRUE, textToReplace |-> t, newText |-> n]
BatchBody(cs) ==
    [hasChanges |-> TRUE, changes |-> cs,
     hasSingle |-> FALSE, textToReplace |-> <<>>, newText |-> <<>>]
MixedBody(cs, t, n) ==
    [hasChanges |-> TRUE, changes |-> cs,
     hasSingle |-> TRUE, textToReplace |-> t, newText |-> n]
NoShapeBody ==
    [hasChanges |-> FALSE, changes |-> <<>>,
     hasSingle |-> FALSE, textToReplace |-> <<>>, newText |-> <<>>]

\* detectChangeRequestType: "multiple", "single", or "invalid" (it throws
\* BadRequestError)
detectChangeRequestType(body) ==
    IF body.hasChanges THEN "multiple"
    ELSE IF body.hasSingle THEN "single"
    ELSE "invalid"

validateSingleChangeRequest(body) ==
    validateString(body.textToReplace) /\ validateString(body.newText)

validateMultipleChangeRequest(body) ==
    \A i \in 1..Len(body.changes) :
        /\ validateString(body.changes[i].textToReplace)
        /\ validateString(body.changes[i].newText)

\* Array.prototype.sort((a, b) => b.position - a.position): stable, by
\* position descending
RECURSIVE SortByPositionDesc(_)
SortByPositionDesc(cs) ==
    IF cs = <<>> THEN <<>>
    ELSE LET top == CHOOSE m \in {cs[i].position : i \in 1..Len(cs)} :
                        \A i \in 1..Len(cs) : cs[i].position <= m
             k == CHOOSE i \in 1..Len(cs) :
                        /\ cs[i].position = top
                        /\ \A j \in 1..(i - 1) : cs[j].position # top
         IN <<cs[k]>> \o SortByPositionDesc(SubSeq(cs, 1, k - 1) \o SubSeq(cs, k + 1, Len(cs)))

\* The for-loop of applyMultipleChanges over the sorted changes
RECURSIVE ApplyLoop(_, _, _)
ApplyLoop(updatedContent, sorted, appliedChanges) ==
    IF sorted = <<>>
    THEN [updatedContent |-> updatedContent, appliedChanges |-> appliedChanges]
    ELSE LET change == Head(sorted)
             position == IndexOf(updatedContent, change.textToReplace)
             applied == position # -1
             entry == [textReplaced |-> change.textToReplace,
                       newText |-> change.newText,
                       position |-> position,
                       applied |-> applied]
         IN ApplyLoop(IF applied
                      THEN JsReplace(updatedContent, change.textToReplace, change.newText)
                      ELSE updatedContent,
                      Tail(sorted),
                      Append(appliedChanges, entry))

applyMultipleChanges(content, changes) ==
    LET changesWithPositions ==
            SortByPositionDesc(
                [i \in 1..Len(changes) |->
                    [textToReplace |-> changes[i].textToReplace,
                     newText |-> changes[i].newText,
                     position |-> IndexOf(content, changes[i].textToReplace)]])
    IN ApplyLoop(content, changesWithPositions, <<>>)

AppliedOnly(appliedChanges) ==
    SelectSeq(appliedChanges, LAMBDA c : c.applied)

\* handleDatabaseError: the status of the AppError it returns.  pgcode is the
\* error's `code` when that is a string (a PostgreSQL error), "" otherwise
\* (an AppError carries a numeric code and falls through to the default).
handleDatabaseError(pgcode) ==
    CASE pgcode = "23505" -> 409
      [] pgcode = "23503" -> 400
      [] pgcode \in {"23502", "23514"} -> 422
      [] pgcode \in {"42P01", "42P02"} -> 500
      [] pgcode \in {"08000", "08003", "08006"} -> 503
      [] OTHER -> 500

\* The part of POST between the permission checks and the UPDATE (lines
\* 214-269): status 0 means the request goes on to the UPDATE.  A
\* ValidationError thrown here is not one of the three classes the catch
\* rethrows, so it leaves through handleDatabaseError.
ComputeChange(requestType, body, currentContent) ==
    IF requestType = "single"
    THEN IF ~validateSingleChangeRequest(body)
         THEN [status |-> handleDatabaseError(""), error |-> "ValidationError",
               updatedContent |-> currentContent, appliedChanges |-> <<>>]
         ELSE LET updatedContent ==
                      JsReplace(currentContent, body.textToReplace, body.newText)
              IN IF currentContent = updatedContent
                 THEN [status |-> 400, error |-> "BadRequestError",
                       updatedContent |-> currentContent, appliedChanges |-> <<>>]
                 ELSE [status |-> 0, error |-> "", updatedContent |-> updatedContent,
                       appliedChanges |->
                          <<[textReplaced |-> body.textToReplace,
                             newText |-> body.newText,
                             position |-> IndexOf(currentContent, body.textToReplace),
                             applied |-> TRUE]>>]
    ELSE IF ~validateMultipleChangeRequest(body)
         THEN [status |-> handleDatabaseError(""), error |-> "ValidationError",
               updatedContent |-> currentContent, appliedChanges |-> <<>>]
         ELSE IF Len(body.changes) = 0
         THEN [status |-> 400, error |-> "BadRequestError",
               updatedContent |-> currentContent, appliedChanges |-> <<>>]
         ELSE LET result == applyMultipleChanges(currentContent, body.changes)
              IN IF Len(AppliedOnly(result.appliedChanges)) = 0
                 THEN [status |-> 400, error |-> "BadRequestError",
                       updatedContent |-> currentContent,
                       appliedChanges |-> result.appliedChanges]
                 ELSE [status |-> 0, error |-> "", updatedContent |-> result.updatedContent,
                       appliedChanges |-> result.appliedChanges]

(***************************************************************************)
(* State                                                                   *)
(***************************************************************************)

VARIABLES
    documents,      \* table documents: id -> row
    collaborators,  \* table document_collaborators: set of rows
    operations,     \* table document_operations, in insertion order
    analytics,      \* table document_analytics, in insertion order
    req,            \* the in-flight POST /changes handlers
    diff,           \* a client turning an edit into ops and replaying them
    documentStates, \* Hub: Map documentId -> {content, version, users}
    userStates,     \* Hub: Map socket.id -> cursor and typing state
    rooms,          \* Hub: socket.io room "document-<id>" -> sockets in it
    sock,           \* Hub: per socket, its connection and in-flight handlers
    received,       \* per socket, the messages the Hub emitted to it, in order
    sent,           \* how many messages of each kind the clients have sent
    put,            \* the in-flight PUT /documents/{id} handler
    manager         \* a client's CollaborationManager

dbVars == <<documents, collaborators, operations, analytics>>
hubVars == <<documentStates, userStates, rooms, sock, received, sent>>
vars == <<documents, collaborators, operations, analytics, req, diff,
          documentStates, userStates, rooms, sock, received, sent, put, manager>>

Users == {"alice", "bob"}
Anonymous == "anon"
Owner == "alice"
Doc == "d1"              \* the document that exists
MissingDoc == "d2"       \* a well-formed id with no row
BadId == "not-a-uuid"
Reqs == {"r1", "r2"}
NoDocument == [content |-> <<>>, content_version |-> 0, owner_id |-> "", is_public |-> FALSE]

InitialContent == <<"a", "b">>

\* validateUUID(id, "documentId")
validateUUID(id) == id \in {Doc, MissingDoc}

IdleRequest ==
    [pc |-> "idle", user |-> "", id |-> "", body |-> NoShapeBody,
     requestType |-> "", document |-> NoDocument,
     updatedContent |-> <<>>, appliedChanges |-> <<>>,
     k |-> 0, seq |-> 0, status |-> 0, error |-> "", at |-> "",
     documentVersion |-> 0]

\* rows of document_collaborators for (document, user) with is_active = TRUE
ActiveBindings(id, user) ==
    {c \in collaborators : c.document_id = id /\ c.user_id = user /\ c.is_active}

\* A plausible slip: the query without its WHERE conditions on the caller
AccessRowsAnyone(id, user) ==
    IF id \in DOMAIN documents THEN {documents[id]} ELSE {}

\* accessQuery (lines 157-169)
AccessRows(id, user) ==
    IF id \in DOMAIN documents
       /\ (\/ documents[id].owner_id = user
           \/ documents[id].is_public
           \/ ActiveBindings(id, user) # {})
    THEN {documents[id]}
    ELSE {}

\* The two permission checks (lines 195-212): 0 when the caller passes
PermissionCheck(document, user, permissionRows) ==
    LET isOwner == document.owner_id = user
        isEditor == \E c \in permissionRows : c.permission_level \in {"owner", "editor"}
        isPublic == document.is_public
    IN IF ~isOwner /\ ~isEditor /\ ~isPublic THEN 403
       ELSE IF permissionRows # {}
               /\ \E c \in permissionRows : c.permission_level \notin {"owner", "editor"}
            THEN 403
            ELSE 0

(***************************************************************************)
(* Change Engine: the handler, one action per awaited query                *)
(***************************************************************************)

\* The handler returns: the response status, the class of the error thrown
\* ("" for the 200 response) and the await at which it stopped
Finish(r, status, error) ==
    [req EXCEPT ![r].pc = "done", ![r].status = status, ![r].error = error,
                ![r].at = req[r].pc]

\* withAuthAppRouter, validateUUID, req.json(), detectChangeRequestType
\* (lines 119-128 of the middleware, 146-154 of the handler)
StartRequest(r, principals, ids, bodies) ==
    /\ req[r].pc = "idle"
    /\ \E user \in principals, id \in ids, body \in bodies :
         LET started == [req[r] EXCEPT !.user = user, !.id = id, !.body = body,
                                       !.requestType = detectChangeRequestType(body)]
         IN req' = [req EXCEPT ![r] =
               IF user = Anonymous
               THEN [started EXCEPT !.pc = "done", !.status = 401,
                                    !.error = "UnauthorizedError", !.at = "idle"]
               ELSE IF ~validateUUID(id)
               THEN [started EXCEPT !.pc = "done", !.status = 422,
                                    !.error = "ValidationError", !.at = "idle"]
               ELSE IF started.requestType = "invalid"
               THEN [started EXCEPT !.pc = "done", !.status = 400,
                                    !.error = "BadRequestError", !.at = "idle"]
               ELSE [started EXCEPT !.pc = "access"]]
    /\ UNCHANGED <<dbVars, hubVars, diff, put, manager>>

\* await pool.query(accessQuery) and the 404 that follows (lines 172-181)
AccessQuery(r) ==
    /\ req[r].pc = "access"
    /\ LET rows == AccessRows(req[r].id, req[r].user)
       IN req' = IF rows = {}
                 THEN Finish(r, 404, "NotFoundError")
                 ELSE [req EXCEPT ![r].pc = "permission",
                                  ![r].document = CHOOSE d \in rows : TRUE]
    /\ UNCHANGED <<dbVars, hubVars, diff, put, manager>>

\* await pool.query(permissionQuery), the permission checks and the
\* computation of the new content (lines 190-269)
PermissionQuery(r) ==
    /\ req[r].pc = "permission"
    /\ LET permissionRows == ActiveBindings(req[r].id, req[r].user)
           denied == PermissionCheck(req[r].document, req[r].user, permissionRows)
           c == ComputeChange(req[r].requestType, req[r].body, req[r].document.content)
       IN req' = IF denied # 0 THEN Finish(r, denied, "ForbiddenError")
                 ELSE IF c.status # 0
                 THEN [Finish(r, c.status, c.error) EXCEPT
                                  ![r].appliedChanges = c.appliedChanges]
                 ELSE [req EXCEPT ![r].pc = "update",
                                  ![r].updatedContent = c.updatedContent,
                                  ![r].appliedChanges = c.appliedChanges]
    /\ UNCHANGED <<dbVars, hubVars, diff, put, manager>>

\* A plausible slip: only the first applied change is recorded
NextOperationPcFirstOnly(r, k) ==
    IF k <= 1 /\ k <= Len(AppliedOnly(req[r].appliedChanges)) THEN "opsnap" ELSE "analytics"

\* The loop over appliedChanges (lines 304-315): the next applied change to
\* insert, or on to the analytics INSERT
NextOperationPc(r, k) ==
    IF k <= Len(AppliedOnly(req[r].appliedChanges)) THEN "opsnap" ELSE "analytics"

\* A plausible slip: the SET clause without the version increment
UpdatedRowSameVersion(row, content) ==
    [row EXCEPT !.content = content]

\* SET content = $1, ..., content_version = content_version + 1
UpdatedRow(row, content) ==
    [row EXCEPT !.content = content, !.content_version = @ + 1]

\* await pool.query(updateQuery) (lines 272-283): the row's content is
\* overwritten and content_version incremented in one statement
UpdateDocument(r) ==
    /\ req[r].pc = "update"
    /\ IF req[r].id \in DOMAIN documents
       THEN /\ documents' = [documents EXCEPT
                   ![req[r].id] = UpdatedRow(@, req[r].updatedContent)]
            /\ req' = [req EXCEPT ![r].pc = NextOperationPc(r, 1), ![r].k = 1,
                          ![r].documentVersion = documents[req[r].id].content_version + 1]
       ELSE /\ req' = Finish(r, 404, "NotFoundError")
            /\ UNCHANGED documents
    /\ UNCHANGED <<collaborators, operations, analytics, hubVars, diff, put, manager>>

MaxSequence(id) ==
    LET s == {operations[i].sequence_number :
                 i \in {j \in 1..Len(operations) : operations[j].document_id = id}}
    IN IF s = {} THEN 0 ELSE CHOOSE m \in s : \A x \in s : x <= m

\* The operation INSERT (lines 286-315) runs as its own statement on a pooled
\* connection: its scalar subquery SELECT COALESCE(MAX(sequence_number),0)+1
\* is evaluated on the statement's snapshot ...
OperationSnapshot(r) ==
    /\ req[r].pc = "opsnap"
    /\ req' = [req EXCEPT ![r].pc = "opinsert",
                          ![r].seq = MaxSequence(req[r].id) + 1]
    /\ UNCHANGED <<dbVars, hubVars, diff, put, manager>>

\* ... and the row is then written with that sequence number
OperationInsert(r) ==
    /\ req[r].pc = "opinsert"
    /\ LET change == AppliedOnly(req[r].appliedChanges)[req[r].k]
       IN operations' = Append(operations,
            [document_id |-> req[r].id,
             operation_type |-> "replace",
             position |-> change.position,
             length |-> Len(change.textReplaced),
             content |-> change.newText,
             user_id |-> req[r].user,
             sequence_number |-> req[r].seq,
             request |-> r])
    /\ req' = [req EXCEPT ![r].pc = NextOperationPc(r, req[r].k + 1), ![r].k = @ + 1]
    /\ UNCHANGED <<documents, collaborators, analytics, hubVars, diff, put, manager>>

\* await pool.query(analyticsQuery) and the 200 response (lines 318-366)
AnalyticsInsert(r) ==
    /\ req[r].pc = "analytics"
    /\ analytics' = Append(analytics,
            [document_id |-> req[r].id,
             user_id |-> req[r].user,
             action_type |-> "edit",
             requestType |-> req[r].requestType,
             totalChanges |-> Len(req[r].appliedChanges),
             appliedChanges |-> Len(AppliedOnly(req[r].appliedChanges)),
             request |-> r])
    /\ req' = Finish(r, 200, "")
    /\ UNCHANGED <<documents, collaborators, operations, hubVars, diff, put, manager>>

\* Any awaited query may reject (connection lost, constraint, schema): the
\* catch maps it through handleDatabaseError (lines 367-376).  Nothing the
\* handler already wrote is undone: each pool.query committed on its own.
PgErrorCodes == {"08006", "23505", "XX000"}
QueryFails(r) ==
    /\ req[r].pc \in {"access", "permission", "update", "opsnap", "opinsert", "analytics"}
    /\ \E pgcode \in PgErrorCodes : req' = Finish(r, handleDatabaseError(pgcode), "pg")
    /\ UNCHANGED <<dbVars, hubVars, diff, put, manager>>

EngineStep(r) ==
    \/ AccessQuery(r)
    \/ PermissionQuery(r)
    \/ UpdateDocument(r)
    \/ OperationSnapshot(r)
    \/ OperationInsert(r)
    \/ AnalyticsInsert(r)
    \/ QueryFails(r)

(***************************************************************************)
(* PUT /documents/{id}: the handler, one action per awaited query           *)
(***************************************************************************)

\* The parsed JSON body of an update: which fields are present
PutBody(hasTitle, hasContent, content) ==
    [hasTitle |-> hasTitle, hasContent |-> hasContent, content |-> content]

IdlePut ==
    [pc |-> "idle", user |-> "", id |-> "", body |-> PutBody(FALSE, FALSE, <<>>),
     status |-> 0]

\* validateUpdateDocument (lines 23-75): 0 when the body passes
validateUpdateDocument(body) ==
    IF body.hasContent /\ ~validateString(body.content) THEN 422
    ELSE IF ~body.hasTitle /\ ~body.hasContent THEN 400
    ELSE 0

PutFinish(status) == [put EXCEPT !.pc = "done", !.status = status]

\* withAuthAppRouter, validateUUID, req.json(), validateUpdateDocument
\* (lines 128-159)
PutStart(principals, ids, bodies) ==
    /\ put.pc = "idle"
    /\ \E user \in principals, id \in ids, body \in bodies :
         LET started == [put EXCEPT !.user = user, !.id = id, !.body = body]
         IN put' = IF user = Anonymous
                   THEN [started EXCEPT !.pc = "done", !.status = 401]
                   ELSE IF ~validateUUID(id)
                   THEN [started EXCEPT !.pc = "done", !.status = 422]
                   ELSE IF validateUpdateDocument(body) # 0
                   THEN [started EXCEPT !.pc = "done",
                                        !.status = validateUpdateDocument(body)]
                   ELSE [started EXCEPT !.pc = "permission"]
    /\ UNCHANGED <<dbVars, req, diff, hubVars, manager>>

\* await pool.query(permissionQuery) and the checks on its first row (lines
\* 162-194): the LEFT JOIN gives one row per active binding of the caller,
\* or one row with a null permission_level
PutPermissionQuery ==
    /\ put.pc = "permission"
    /\ IF put.id \notin DOMAIN documents
       THEN put' = PutFinish(404)
       ELSE LET document == documents[put.id]
                bindings == ActiveBindings(put.id, put.user)
                isOwner == document.owner_id = put.user
                isPublic == document.is_public
            IN \E isEditor \in
                    IF bindings = {} THEN {FALSE}
                    ELSE {(c.permission_level \in {"owner", "editor"}) : c \in bindings} :
                  put' = IF ~isOwner /\ ~isEditor /\ ~isPublic
                         THEN PutFinish(403)
                         ELSE [put EXCEPT !.pc = "update"]
    /\ UNCHANGED <<dbVars, req, diff, hubVars, manager>>

\* The row after the UPDATE the handler builds (lines 196-240): the fields of
\* the body, updated_at and last_edited_at; content_version is not in the
\* SET list, and the table's only trigger sets updated_at
PutUpdatedRow(row, body) ==
    IF body.hasContent THEN [row EXCEPT !.content = body.content] ELSE row

\* await pool.query(updateQuery) (lines 234-246)
PutUpdate ==
    /\ put.pc = "update"
    /\ IF put.id \in DOMAIN documents
       THEN /\ documents' = [documents EXCEPT ![put.id] = PutUpdatedRow(@, put.body)]
            /\ put' = [put EXCEPT !.pc = "analytics"]
       ELSE /\ UNCHANGED documents
            /\ put' = PutFinish(404)
    /\ UNCHANGED <<collaborators, operations, analytics, req, diff, hubVars, manager>>

\* The analytics INSERT, whose failure is ignored, and the response (lines
\* 248-271)
PutAnalytics ==
    /\ put.pc = "analytics"
    /\ \E inserted \in BOOLEAN :
         analytics' =
            IF inserted
            THEN Append(analytics,
                    [document_id |-> put.id, user_id |-> put.user,
                     action_type |-> "edit", requestType |-> "document_updated",
                     totalChanges |-> 0, appliedChanges |-> 0, request |-> "put"])
            ELSE analytics
    /\ put' = PutFinish(200)
    /\ UNCHANGED <<documents, collaborators, operations, req, diff, hubVars, manager>>

\* The permission query or the UPDATE fails: handleDatabaseError (lines
\* 272-284)
PutQueryFails ==
    /\ put.pc \in {"permission", "update"}
    /\ \E pgcode \in PgErrorCodes : put' = PutFinish(handleDatabaseError(pgcode))
    /\ UNCHANGED <<dbVars, req, diff, hubVars, manager>>

PutStep ==
    \/ PutPermissionQuery
    \/ PutUpdate
    \/ PutAnalytics
    \/ PutQueryFails

(***************************************************************************)
(* Collaboration Hub: the socket.io server                                 *)
(***************************************************************************)

\* The connections the server has accepted (io.on("connection"), line 137),
\* and the user each client runs as
Sockets == {"s1", "s2"}
SocketUser(s) == IF s = "s1" THEN "alice" ELSE "bob"

\* Caps on the messages the clients send
MaxJoins == 2
MaxChanges == 2
MaxPresence == 1

\* Bodies a client pushes with document-change
HubContents == {<<"c">>}

IdleJoin == [pc |-> "idle", documentId |-> "", userId |-> "", document |-> NoDocument]
IdleChange == [pc |-> "idle", documentId |-> "", userId |-> "", newContent |-> <<>>,
               written |-> 0, receivedAt |-> 0]

InitHub ==
    /\ documentStates = <<>>
    /\ userStates = <<>>
    /\ rooms = [id \in {Doc, MissingDoc} |-> {}]
    /\ sock = [s \in Sockets |->
                [state |-> "connected", join |-> IdleJoin, change |-> IdleChange,
                 left |-> {}, typing |-> ""]]
    /\ received = [s \in Sockets |-> <<>>]
    /\ sent = [joins |-> 0, changes |-> 0, presence |-> 0]

\* getOrCreateDocumentState (lines 125-134): the map after the call
getOrCreateDocumentState(states, documentId) ==
    IF documentId \in DOMAIN states THEN states
    ELSE (documentId :> [content |-> <<>>, version |-> 0, users |-> {}]) @@ states

\* socket.emit / socket.to(room).emit: msg is appended to what each target
\* that is still connected receives
Emit(targets, msg) ==
    [s \in Sockets |->
        IF s \in targets /\ sock[s].state = "connected"
        THEN Append(received[s], msg)
        ELSE received[s]]

\* A plausible slip: io.to(room), which reaches the sender as well
RoomWithSender(s, documentId) ==
    IF documentId \in DOMAIN rooms THEN rooms[documentId] ELSE {}

\* socket.to(`document-${documentId}`): everyone in the room but the sender
RoomPeers(s, documentId) ==
    IF documentId \in DOMAIN rooms THEN rooms[documentId] \ {s} ELSE {}

\* A message on the wire.  `order` is not part of the payload: for a message
\* the Hub forwards it is the rank of the originating message among those the
\* Hub received; currentUsers is filled for document-state only
Message(kind, documentId, from, content, version) ==
    [kind |-> kind, documentId |-> documentId, socketId |-> from,
     content |-> content, version |-> version, order |-> 0, currentUsers |-> {}]

\* The rank the Hub gives to the next cursor, typing or content message
NextReceipt == sent.changes + sent.presence + 1

\* The currentUsers list of document-state (lines 223-237): the roster
\* without the joiner, each with what userStates holds for it (position 0
\* stands for undefined)
CurrentUsers(users, s) ==
    {[socketId |-> q,
      position |-> IF q \in DOMAIN userStates THEN userStates[q].position ELSE 0,
      isTyping |-> IF q \in DOMAIN userStates THEN userStates[q].isTyping ELSE FALSE]
     : q \in users \ {s}}

\* socket.on("join-document") up to its first await (lines 150-158)
JoinReceive(s) ==
    /\ sock[s].state = "connected"
    /\ sock[s].join.pc = "idle"
    /\ sent.joins < MaxJoins
    /\ \E documentId \in {Doc, MissingDoc}, userId \in Users :
         sock' = [sock EXCEPT ![s].join =
                    [pc |-> "documentCheck", documentId |-> documentId,
                     userId |-> userId, document |-> NoDocument],
                  ![s].left = @ \ {documentId}]
    /\ sent' = [sent EXCEPT !.joins = @ + 1]
    /\ UNCHANGED <<dbVars, req, diff, put, manager, documentStates, userStates, rooms, received>>

\* await pool.query(documentCheckQuery) and the "Document not found" branch
\* (lines 157-164)
JoinDocumentCheck(s) ==
    /\ sock[s].join.pc = "documentCheck"
    /\ IF sock[s].join.documentId \in DOMAIN documents
       THEN /\ sock' = [sock EXCEPT ![s].join.pc = "userCheck"]
            /\ UNCHANGED received
       ELSE /\ sock' = [sock EXCEPT ![s].join = IdleJoin]
            /\ received' = Emit({s}, Message("access-denied", sock[s].join.documentId,
                                             s, <<>>, 0))
    /\ UNCHANGED <<dbVars, req, diff, put, manager, documentStates, userStates, rooms, sent>>

\* await pool.query(userCheckQuery): only logged (lines 175-185)
JoinUserCheck(s) ==
    /\ sock[s].join.pc = "userCheck"
    /\ sock' = [sock EXCEPT ![s].join.pc = "accessQuery"]
    /\ UNCHANGED <<dbVars, req, diff, put, manager, documentStates, userStates, rooms, received, sent>>

\* await pool.query(accessQuery) (lines 187-199): the row is read now, the
\* handler resumes with it later
JoinAccessQuery(s) ==
    /\ sock[s].join.pc = "accessQuery"
    /\ LET rows == AccessRows(sock[s].join.documentId, sock[s].join.userId)
       IN sock' = [sock EXCEPT
              ![s].join.pc = IF rows = {} THEN "denied" ELSE "granted",
              ![s].join.document = IF rows = {} THEN NoDocument
                                   ELSE CHOOSE d \in rows : TRUE]
    /\ UNCHANGED <<dbVars, req, diff, put, manager, documentStates, userStates, rooms, received, sent>>

\* The access-denied branch (lines 205-211)
JoinDenied(s) ==
    /\ sock[s].join.pc = "denied"
    /\ sock' = [sock EXCEPT ![s].join = IdleJoin]
    /\ received' = Emit({s}, Message("access-denied", sock[s].join.documentId, s, <<>>, 0))
    /\ UNCHANGED <<dbVars, req, diff, put, manager, documentStates, userStates, rooms, sent>>

\* The rest of the join handler (lines 213-253): join the room, seed the
\* document state from the row read, document-state to the joiner,
\* user-joined to the others
JoinComplete(s) ==
    /\ sock[s].join.pc = "granted"
    /\ LET documentId == sock[s].join.documentId
           document == sock[s].join.document
           states == getOrCreateDocumentState(documentStates, documentId)
           toJoiner == Emit({s}, [Message("document-state", documentId, s,
                                          document.content, document.content_version)
                                  EXCEPT !.currentUsers =
                                      CurrentUsers(states[documentId].users \cup {s}, s)])
       IN /\ rooms' = [rooms EXCEPT ![documentId] = @ \cup {s}]
          /\ documentStates' = [states EXCEPT
                ![documentId] = [content |-> document.content,
                                 version |-> document.content_version,
                                 users |-> states[documentId].users \cup {s}]]
          /\ received' =
                [p \in Sockets |->
                    IF p \in RoomPeers(s, documentId) /\ sock[p].state = "connected"
                    THEN Append(toJoiner[p], Message("user-joined", documentId, s, <<>>, 0))
                    ELSE toJoiner[p]]
    /\ sock' = [sock EXCEPT ![s].join = IdleJoin]
    /\ UNCHANGED <<dbVars, req, diff, put, manager, userStates, sent>>

\* socket.on("document-change") up to its await (lines 319-334)
ChangeReceive(s) ==
    /\ sock[s].state = "connected"
    /\ sock[s].change.pc = "idle"
    /\ sent.changes < MaxChanges
    /\ \E documentId \in {Doc, MissingDoc}, newContent \in HubContents :
         sock' = [sock EXCEPT ![s].change =
                    [pc |-> "update", documentId |-> documentId,
                     userId |-> SocketUser(s), newContent |-> newContent,
                     written |-> 0, receivedAt |-> NextReceipt]]
    /\ sent' = [sent EXCEPT !.changes = @ + 1]
    /\ UNCHANGED <<dbVars, req, diff, put, manager, documentStates, userStates, rooms, received>>

\* await pool.query(updateQuery) (lines 328-334); an id with no row updates
\* nothing and is no error.  The statement has no RETURNING clause: `written`
\* is the content_version it stored, which the handler never gets to see
ChangeUpdate(s) ==
    /\ sock[s].change.pc = "update"
    /\ documents' =
          IF sock[s].change.documentId \in DOMAIN documents
          THEN [documents EXCEPT ![sock[s].change.documentId] =
                    UpdatedRow(@, sock[s].change.newContent)]
          ELSE documents
    /\ sock' = [sock EXCEPT
          ![s].change.pc = "broadcast",
          ![s].change.written =
              IF sock[s].change.documentId \in DOMAIN documents
              THEN documents[sock[s].change.documentId].content_version + 1
              ELSE 0]
    /\ UNCHANGED <<collaborators, operations, analytics, req, diff, put, manager,
                   documentStates, userStates, rooms, received, sent>>

\* The rest of the document-change handler (lines 336-354)
ChangeBroadcast(s) ==
    /\ sock[s].change.pc = "broadcast"
    /\ LET documentId == sock[s].change.documentId
           states == getOrCreateDocumentState(documentStates, documentId)
           version == states[documentId].version + 1
       IN /\ documentStates' = [states EXCEPT
                ![documentId].content = sock[s].change.newContent,
                ![documentId].version = version]
          /\ received' = Emit(RoomPeers(s, documentId),
                              [Message("document-updated", documentId, s,
                                       sock[s].change.newContent, version)
                               EXCEPT !.order = sock[s].change.receivedAt])
    /\ sock' = [sock EXCEPT ![s].change = IdleChange]
    /\ UNCHANGED <<dbVars, req, diff, put, manager, userStates, rooms, sent>>

\* socket.on("cursor-update") (lines 261-283)
CursorUpdate(s) ==
    /\ sock[s].state = "connected"
    /\ sent.presence < MaxPresence
    /\ \E documentId \in {Doc, MissingDoc} :
         /\ userStates' =
               (s :> [userId |-> SocketUser(s), socketId |-> s, position |-> 1,
                      isTyping |-> IF s \in DOMAIN userStates
                                   THEN userStates[s].isTyping ELSE FALSE])
               @@ userStates
         /\ received' = Emit(RoomPeers(s, documentId),
                             [Message("cursor-update", documentId, s, <<>>, 0)
                              EXCEPT !.order = NextReceipt])
    /\ sent' = [sent EXCEPT !.presence = @ + 1]
    /\ UNCHANGED <<dbVars, req, diff, put, manager, documentStates, rooms, sock>>

\* socket.on("typing-start") / socket.on("typing-stop") (lines 286-316).
\* `typing` is the client's side: the document of its latest typing-start
\* that no typing-stop has followed
Typing(s, kind) ==
    /\ sock[s].state = "connected"
    /\ sent.presence < MaxPresence
    /\ \E documentId \in {Doc, MissingDoc} :
         /\ received' = Emit(RoomPeers(s, documentId),
                             [Message(kind, documentId, s, <<>>, 0)
                              EXCEPT !.order = NextReceipt])
         /\ sock' = [sock EXCEPT ![s].typing =
                        IF kind = "typing-start" THEN documentId
                        ELSE IF @ = documentId THEN "" ELSE @]
    /\ userStates' =
          IF s \in DOMAIN userStates
          THEN [userStates EXCEPT ![s].isTyping = (kind = "typing-start")]
          ELSE userStates
    /\ sent' = [sent EXCEPT !.presence = @ + 1]
    /\ UNCHANGED <<dbVars, req, diff, put, manager, documentStates, rooms>>

\* socket.on("disconnect") (lines 362-380); socket.io has already taken the
\* socket out of its rooms when the event fires
Disconnect(s) ==
    /\ sock[s].state = "connected"
    /\ sock' = [sock EXCEPT ![s].state = "disconnected", ![s].typing = ""]
    /\ rooms' = [id \in DOMAIN rooms |-> rooms[id] \ {s}]
    /\ documentStates' =
          [id \in DOMAIN documentStates |->
              [documentStates[id] EXCEPT !.users = @ \ {s}]]
    /\ received' =
          [p \in Sockets |->
              LET UserLeft(id) ==
                      IF /\ id \in DOMAIN documentStates
                         /\ s \in documentStates[id].users
                         /\ p \in rooms[id] \ {s}
                         /\ sock[p].state = "connected"
                      THEN <<Message("user-left", id, s, <<>>, 0)>>
                      ELSE <<>>
              IN received[p] \o UserLeft(Doc) \o UserLeft(MissingDoc)]
    /\ userStates' = [p \in DOMAIN userStates \ {s} |-> userStates[p]]
    /\ UNCHANGED <<dbVars, req, diff, put, manager, sent>>

\* CollaborationManager.leaveDocument: the client of a joined session emits
\* "leave-document" and forgets the document; the server registers no
\* listener for that event, so nothing happens on its side.  `left` is the
\* client's side: the documents it has left and not joined again
LeaveDocument(s) ==
    /\ sock[s].state = "connected"
    /\ sock[s].join.pc = "idle"
    /\ \E documentId \in {Doc, MissingDoc} :
         /\ s \in rooms[documentId]
         /\ documentId \notin sock[s].left
         /\ sock' = [sock EXCEPT ![s].left = @ \cup {documentId}]
    /\ UNCHANGED <<dbVars, req, diff, put, manager, documentStates, userStates, rooms, received, sent>>

TypingStart(s) == Typing(s, "typing-start")
TypingStop(s) == Typing(s, "typing-stop")

HubStep(s) ==
    \/ JoinReceive(s)
    \/ JoinDocumentCheck(s)
    \/ JoinUserCheck(s)
    \/ JoinAccessQuery(s)
    \/ JoinDenied(s)
    \/ JoinComplete(s)
    \/ ChangeReceive(s)
    \/ ChangeUpdate(s)
    \/ ChangeBroadcast(s)
    \/ CursorUpdate(s)
    \/ TypingStart(s)
    \/ TypingStop(s)
    \/ LeaveDocument(s)
    \/ Disconnect(s)

(***************************************************************************)
(* Client: CollaborationManager                                            *)
(***************************************************************************)

\* null for documentId and userId
Null == ""

\* One call of socket.emit
Event(kind, documentId, userId) ==
    [kind |-> kind, documentId |-> documentId, userId |-> userId]

\* The manager after its constructor (lines 311-332): the socket is created
\* and is connecting.  `out` is what the last step passed to socket.emit.
\* Not fields of the class: `session` is the latest joinDocument and whether
\* a leaveDocument or disconnect has followed it, `typingOpen` the documents
\* with an emitted typing-start that no typing-stop has followed,
\* `timerStale` whether the pending timer was set before a leaveDocument,
\* `step` whether the last step was a call, a socket event or the timer
InitManager ==
    [connected |-> FALSE, closed |-> FALSE,
     documentId |-> Null, userId |-> Null, typingTimeout |-> FALSE,
     out |-> <<>>,
     session |-> [documentId |-> Null, userId |-> Null, open |-> FALSE],
     typingOpen |-> {}, timerStale |-> FALSE, step |-> "new"]

\* typingOpen after the events of a step
TypingOpenAfter(open, events) ==
    LET F[i \in 0..Len(events)] ==
            IF i = 0 THEN open
            ELSE IF events[i].kind = "typing-start"
                 THEN F[i - 1] \cup {events[i].documentId}
                 ELSE IF events[i].kind = "typing-stop"
                      THEN F[i - 1] \ {events[i].documentId}
                      ELSE F[i - 1]
    IN F[Len(events)]

\* this.socket.emit(...) for each of events, in order
EmitAll(m, events) ==
    [m EXCEPT !.out = events, !.typingOpen = TypingOpenAfter(@, events),
              !.step = "call"]

\* The guard of the four sending methods: this.socket && this.documentId &&
\* this.userId
Bound(m) == m.documentId # Null /\ m.userId # Null

\* The connect listener (lines 337-339): it logs, and emits nothing
OnConnect(m) == EmitAll(m, <<>>)

\* socket.on("connect"): the transport is up, first or again
SocketConnect ==
    /\ ~manager.connected
    /\ ~manager.closed
    /\ manager' = [OnConnect(manager) EXCEPT !.connected = TRUE, !.step = "event"]
    /\ UNCHANGED <<dbVars, req, diff, hubVars, put>>

\* socket.on("disconnect") after a loss of the transport (lines 341-343):
\* logged; socket.io reconnects by itself
SocketDisconnect ==
    /\ manager.connected
    /\ manager' = [EmitAll(manager, <<>>) EXCEPT !.connected = FALSE,
                                                  !.step = "event"]
    /\ UNCHANGED <<dbVars, req, diff, hubVars, put>>

\* joinDocument (lines 497-530)
joinDocument(documentId, userId) ==
    /\ manager' = [EmitAll(manager, <<Event("join-document", documentId, userId)>>)
                   EXCEPT !.documentId = documentId, !.userId = userId,
                          !.session = [documentId |-> documentId,
                                       userId |-> userId, open |-> TRUE]]
    /\ UNCHANGED <<dbVars, req, diff, hubVars, put>>

\* leaveDocument (lines 532-539): the typing timer is left running
leaveDocument ==
    /\ manager' =
          IF manager.documentId # Null
          THEN [EmitAll(manager, <<Event("leave-document", manager.documentId, Null)>>)
                EXCEPT !.documentId = Null, !.userId = Null,
                       !.session.open = FALSE,
                       !.timerStale = manager.typingTimeout]
          ELSE EmitAll(manager, <<>>)
    /\ UNCHANGED <<dbVars, req, diff, hubVars, put>>

\* updateCursor (lines 541-555)
updateCursor ==
    /\ manager' =
          IF Bound(manager)
          THEN EmitAll(manager, <<Event("cursor-update", manager.documentId,
                                        manager.userId)>>)
          ELSE EmitAll(manager, <<>>)
    /\ UNCHANGED <<dbVars, req, diff, hubVars, put>>

\* startTyping (lines 557-574): the old timer is cleared, a new one is set
startTyping ==
    /\ manager' =
          IF Bound(manager)
          THEN [EmitAll(manager, <<Event("typing-start", manager.documentId,
                                         manager.userId)>>)
                EXCEPT !.typingTimeout = TRUE, !.timerStale = FALSE]
          ELSE EmitAll(manager, <<>>)
    /\ UNCHANGED <<dbVars, req, diff, hubVars, put>>

\* The manager after stopTyping (lines 580-592)
StopTypingResult(m) ==
    IF Bound(m)
    THEN [EmitAll(m, <<Event("typing-stop", m.documentId, m.userId)>>)
          EXCEPT !.typingTimeout = FALSE, !.timerStale = FALSE]
    ELSE EmitAll(m, <<>>)

stopTyping ==
    /\ manager' = StopTypingResult(manager)
    /\ UNCHANGED <<dbVars, req, diff, hubVars, put>>

\* The 2-second timer of startTyping fires (lines 571-573): it calls
\* stopTyping, and a timer fires once
TypingTimeout ==
    /\ manager.typingTimeout
    /\ manager' = [StopTypingResult(manager) EXCEPT !.typingTimeout = FALSE,
                                                    !.timerStale = FALSE,
                                                    !.step = "timer"]
    /\ UNCHANGED <<dbVars, req, diff, hubVars, put>>

\* sendDocumentChange (lines 594-605)
sendDocumentChange ==
    /\ manager' =
          IF Bound(manager)
          THEN EmitAll(manager, <<Event("document-change", manager.documentId,
                                        manager.userId)>>)
          ELSE EmitAll(manager, <<>>)
    /\ UNCHANGED <<dbVars, req, diff, hubVars, put>>

\* disconnect (lines 689-696): the socket is closed for good and the timer
\* is cleared; documentId and userId stay as they are
disconnect ==
    /\ manager' = [EmitAll(manager, <<>>) EXCEPT
                      !.connected = FALSE, !.closed = TRUE,
                      !.typingTimeout = FALSE, !.timerStale = FALSE,
                      !.session.open = FALSE]
    /\ UNCHANGED <<dbVars, req, diff, hubVars, put>>

(***************************************************************************)
(* Client diff: generateChangeRequests                                     *)
(***************************************************************************)

\* The characters /\s/ matches
Whitespace == {" "}

\* String.prototype.split(/(\s+)/): the words and, between them, the
\* whitespace runs that separated them; a text that starts or ends with
\* whitespace gets an empty first or last word
RECURSIVE SplitScan(_, _, _, _, _)
SplitScan(text, i, cur, inWs, acc) ==
    IF i > Len(text)
    THEN IF inWs THEN Append(Append(acc, cur), <<>>) ELSE Append(acc, cur)
    ELSE IF text[i] \in Whitespace
         THEN IF inWs
              THEN SplitScan(text, i + 1, Append(cur, text[i]), TRUE, acc)
              ELSE SplitScan(text, i + 1, <<text[i]>>, TRUE, Append(acc, cur))
         ELSE IF inWs
              THEN SplitScan(text, i + 1, <<text[i]>>, FALSE, Append(acc, cur))
              ELSE SplitScan(text, i + 1, Append(cur, text[i]), FALSE, acc)

SplitWords(text) == SplitScan(text, 1, <<>>, FALSE, <<>>)

\* Array.prototype.join("")
RECURSIVE Join(_)
Join(words) == IF words = <<>> THEN <<>> ELSE Head(words) \o Join(Tail(words))

\* The first loop of both diffs: how many leading elements agree, looking no
\* further than the shorter sequence
StartIndex(old, new) ==
    LET minLength == IF Len(old) < Len(new) THEN Len(old) ELSE Len(new)
    IN CHOOSE k \in 0..minLength :
          /\ \A i \in 1..k : old[i] = new[i]
          /\ k < minLength => old[k + 1] # new[k + 1]

\* The second loop of both diffs: it walks down from the length of the
\* shorter sequence and compares the two sequences at the same index
EndIndex(old, new, startIndex) ==
    LET minLength == IF Len(old) < Len(new) THEN Len(old) ELSE Len(new)
    IN CHOOSE e \in startIndex..minLength :
          /\ \A i \in (e + 1)..minLength : old[i] = new[i]
          /\ e > startIndex => old[e] # new[e]

TextChange(textToReplace, newText, position) ==
    [textToReplace |-> textToReplace, newText |-> newText, position |-> position]

findTextChanges(oldText, newText) ==
    IF oldText = newText THEN <<>>
    ELSE LET startIndex == StartIndex(oldText, newText)
             endIndex == EndIndex(oldText, newText, startIndex)
             oldChanged == SubSeq(oldText, startIndex + 1, endIndex)
             newChanged == SubSeq(newText, startIndex + 1, endIndex)
         IN IF oldChanged # newChanged
            THEN <<TextChange(oldChanged, newChanged, startIndex)>>
            ELSE <<>>

findWordLevelChanges(oldText, newText) ==
    LET oldWords == SplitWords(oldText)
        newWords == SplitWords(newText)
        startIndex == StartIndex(oldWords, newWords)
        endIndex == EndIndex(oldWords, newWords, startIndex)
        oldChangedWords == SubSeq(oldWords, startIndex + 1, endIndex)
        newChangedWords == SubSeq(newWords, startIndex + 1, endIndex)
        position == Len(Join(SubSeq(oldWords, 1, startIndex)))
    IN IF Len(oldChangedWords) > 0 \/ Len(newChangedWords) > 0
       THEN <<TextChange(Join(oldChangedWords), Join(newChangedWords), position)>>
       ELSE <<>>

\* A plausible slip: no last resort when neither diff finds a change
generateChangeRequestsNoFallback(oldText, newText) ==
    IF oldText = newText THEN <<>>
    ELSE LET wordChanges == findWordLevelChanges(oldText, newText)
         IN IF Len(wordChanges) > 0 THEN wordChanges
            ELSE findTextChanges(oldText, newText)

generateChangeRequests(oldText, newText) ==
    IF oldText = newText THEN <<>>
    ELSE LET wordChanges == findWordLevelChanges(oldText, newText)
             charChanges == findTextChanges(oldText, newText)
         IN IF Len(wordChanges) > 0 THEN wordChanges
            ELSE IF Len(charChanges) > 0 THEN charChanges
            ELSE <<TextChange(oldText, newText, 0)>>

\* Texts of the diff specification
MaxLen == 3
Alphabet == {"a", "b", " "}
Texts == UNION {[1..n -> Alphabet] : n \in 0..MaxLen}

IdleDiff == [pc |-> "idle", oldText |-> <<>>, newText |-> <<>>,
             changes |-> <<>>, k |-> 0, content |-> <<>>]

\* The editor calls generateChangeRequests(oldText, newText)
GenerateChanges ==
    /\ diff.pc = "input"
    /\ LET changes == generateChangeRequests(diff.oldText, diff.newText)
       IN diff' = [diff EXCEPT !.changes = changes, !.k = 1,
                               !.content = diff.oldText,
                               !.pc = IF changes = <<>> THEN "applied" ELSE "apply"]
    /\ UNCHANGED <<dbVars, req, hubVars, put, manager>>

\* The next op is applied the way the engine applies one op: the first
\* occurrence of its textToReplace makes way for its newText
ApplyChange ==
    /\ diff.pc = "apply"
    /\ LET change == diff.changes[diff.k]
       IN diff' = [diff EXCEPT
              !.content = JsReplace(@, change.textToReplace, change.newText),
              !.k = @ + 1,
              !.pc = IF diff.k = Len(diff.changes) THEN "applied" ELSE "apply"]
    /\ UNCHANGED <<dbVars, req, hubVars, put, manager>>

(***************************************************************************)
(* Inputs and specifications                                               *)
(***************************************************************************)

OpAX == Op(<<"a">>, <<"x">>)
OpBY == Op(<<"b">>, <<"y">>)
OpMiss == Op(<<"z">>, <<"w">>)
OpMissDelete == Op(<<"z">>, <<>>)
OpDelete == Op(<<"b">>, <<>>)
OpSame == Op(<<"a">>, <<"a">>)
OpWhole == Op(<<"a", "b">>, <<"x", "y">>)
OpDollar == Op(<<"a">>, <<"$", "$">>)

\* Request bodies of the engine specification
EngineBodies ==
    { SingleBody(o.textToReplace, o.newText) :
        o \in {OpAX, OpBY, OpMiss, OpMissDelete, OpDelete, OpSame, OpDollar} }
    \cup { BatchBody(cs) :
        cs \in { <<>>, <<OpMiss>>, <<OpMiss, OpMissDelete>>, <<OpAX>>, <<OpSame>>,
                 <<OpAX, OpBY>>, <<OpAX, OpMiss, OpBY>>, <<OpWhole, OpAX, OpBY>> } }
    \cup { NoShapeBody, MixedBody(<<OpAX>>, <<"b">>, <<"y">>) }

OwnerBinding ==
    [document_id |-> Doc, user_id |-> Owner, permission_level |-> "owner", is_active |-> TRUE]

Binding(user, level, active) ==
    [document_id |-> Doc, user_id |-> user, permission_level |-> level, is_active |-> active]

InitRequests ==
    /\ req = [r \in Reqs |-> IdleRequest]
    /\ put = IdlePut
    /\ manager = InitManager

InitTables(publicFlags, bindingSets) ==
    /\ \E p \in publicFlags :
         documents = [id \in {Doc} |->
            [content |-> InitialContent, content_version |-> 1,
             owner_id |-> Owner, is_public |-> p]]
    /\ collaborators \in bindingSets
    /\ operations = <<>>
    /\ analytics = <<>>

\* The Change Engine alone: two concurrent requests by the owner on a private
\* document created through POST /documents (owner binding present)
InitEngine ==
    /\ InitTables({FALSE}, {{OwnerBinding}})
    /\ InitRequests
    /\ InitHub
    /\ diff = IdleDiff

NextEngine ==
    \E r \in Reqs :
        \/ StartRequest(r, {Owner}, {Doc}, EngineBodies)
        \/ EngineStep(r)

SpecEngine == InitEngine /\ [][NextEngine]_vars

\* The Hub alone, over a private document created through POST /documents
InitHubOnly ==
    /\ InitTables({FALSE}, {{OwnerBinding}})
    /\ InitRequests
    /\ InitHub
    /\ diff = IdleDiff

NextHub == \E s \in Sockets : HubStep(s)

SpecHub == InitHubOnly /\ [][NextHub]_vars

\* The authorization gate: one request, every principal, every visibility
\* and every binding row the unique (document, user) constraint allows
AuthBodies ==
    { SingleBody(o.textToReplace, o.newText) : o \in {OpAX, OpMiss} }

BindingLevels == {"owner", "editor", "viewer", "commenter"}

BindingChoices(user) ==
    {{}} \cup {{Binding(user, level, active)} : level \in BindingLevels, active \in BOOLEAN}

InitAuth ==
    /\ InitTables(BOOLEAN,
                  {a \cup b : a \in BindingChoices("alice"), b \in BindingChoices("bob")})
    /\ InitRequests
    /\ InitHub
    /\ diff = IdleDiff

NextAuth ==
    \E r \in {"r1"} :
        \/ StartRequest(r, Users \cup {Anonymous}, {Doc, MissingDoc, BadId}, AuthBodies)
        \/ EngineStep(r)

SpecAuth == InitAuth /\ [][NextAuth]_vars

\* The diff alone: every pair of texts up to MaxLen characters
InitDiff ==
    /\ InitTables({FALSE}, {{OwnerBinding}})
    /\ InitRequests
    /\ InitHub
    /\ \E oldText \in Texts, newText \in Texts :
         diff = [IdleDiff EXCEPT !.pc = "input", !.oldText = oldText,
                                 !.newText = newText]

NextDiff == GenerateChanges \/ ApplyChange

SpecDiff == InitDiff /\ [][NextDiff]_vars

\* PUT /documents/{id} next to one change request and one Hub session, over
\* every visibility and every binding of the second user
PutBodies ==
    { PutBody(TRUE, FALSE, <<>>), PutBody(FALSE, TRUE, <<"c">>),
      PutBody(FALSE, TRUE, <<>>), PutBody(FALSE, FALSE, <<>>) }

InitPut ==
    /\ InitTables(BOOLEAN, {{OwnerBinding} \cup b : b \in BindingChoices("bob")})
    /\ InitRequests
    /\ InitHub
    /\ diff = IdleDiff

NextPut ==
    \/ PutStart(Users \cup {Anonymous}, {Doc, MissingDoc, BadId}, PutBodies)
    \/ PutStep
    \/ StartRequest("r1", {Owner}, {Doc}, {SingleBody(OpAX.textToReplace, OpAX.newText)})
    \/ EngineStep("r1")
    \/ ChangeReceive("s1")
    \/ ChangeUpdate("s1")
    \/ ChangeBroadcast("s1")

SpecPut == InitPut /\ [][NextPut]_vars

\* The client's CollaborationManager alone: the application calls its
\* methods in any order while the transport comes and goes
NextManager ==
    \/ SocketConnect
    \/ SocketDisconnect
    \/ \E documentId \in {Doc, MissingDoc}, userId \in Users :
          joinDocument(documentId, userId)
    \/ leaveDocument
    \/ updateCursor
    \/ startTyping
    \/ stopTyping
    \/ TypingTimeout
    \/ sendDocumentChange
    \/ disconnect

SpecManager == InitHubOnly /\ [][NextManager]_vars

\* A timer that is set and not cleared fires
SpecManagerFair == SpecManager /\ WF_vars(TypingTimeout)

\* One request at a time over every short body: the owner sends one op in
\* either shape, or a batch of two, on a document whose body is any text of
\* up to MaxBody characters
MaxBody == 4
ApplyContents == UNION {[1..n -> {"a", "b"}] : n \in 1..MaxBody}
ApplyOps ==
    { Op(t, n) : t \in {<<"a">>, <<"b">>, <<"a", "b">>},
                 n \in {<<>>, <<"a">>, <<"x">>} }
ApplyBodies ==
    { SingleBody(o.textToReplace, o.newText) : o \in ApplyOps }
    \cup { BatchBody(<<o>>) : o \in ApplyOps }
    \cup { BatchBody(<<o1, o2>>) : o1 \in ApplyOps, o2 \in ApplyOps }

InitApply ==
    /\ \E content \in ApplyContents :
         documents = [id \in {Doc} |->
            [content |-> content, content_version |-> 1,
             owner_id |-> Owner, is_public |-> FALSE]]
    /\ collaborators = {OwnerBinding}
    /\ operations = <<>>
    /\ analytics = <<>>
    /\ InitRequests
    /\ InitHub
    /\ diff = IdleDiff

NextApply ==
    \E r \in {"r1"} :
        \/ StartRequest(r, {Owner}, {Doc}, ApplyBodies)
        \/ EngineStep(r)

SpecApply == InitApply /\ [][NextApply]_vars

\* Hub and Change Engine side by side: two sessions joining and changing the
\* document while the owner sends one change request
BothBodies == {SingleBody(OpAX.textToReplace, OpAX.newText)}

NextBoth ==
    \/ \E s \in Sockets :
          \/ JoinReceive(s)
          \/ JoinDocumentCheck(s)
          \/ JoinUserCheck(s)
          \/ JoinAccessQuery(s)
          \/ JoinDenied(s)
          \/ JoinComplete(s)
          \/ ChangeReceive(s)
          \/ ChangeUpdate(s)
          \/ ChangeBroadcast(s)
    \/ \E r \in {"r1"} :
          \/ StartRequest(r, {Owner}, {Doc}, BothBodies)
          \/ EngineStep(r)

SpecBoth == InitHubOnly /\ [][NextBoth]_vars

(***************************************************************************)
(* Properties of the Change Engine                                         *)
(***************************************************************************)

Accepted(r) == req[r].pc = "done" /\ req[r].status = 200
UpdateIssued(r) == req[r].documentVersion > 0
OthersIdle(r) == \A q \in Reqs \ {r} : req[q].pc = "idle"
RowsOf(r, table) == {i \in 1..Len(table) : table[i].request = r}
WroteNothing(r) ==
    /\ ~UpdateIssued(r)
    /\ RowsOf(r, operations) = {}
    /\ RowsOf(r, analytics) = {}
AppliedCount(r) == Len(AppliedOnly(req[r].appliedChanges))

\* The ops of a request body, single or batch
BodyOps(body) ==
    IF body.hasChanges THEN body.changes
    ELSE <<Op(body.textToReplace, body.newText)>>

\* The body two requests leave when run one after the other on `content` (a
\* request that is refused leaves the body as it found it)
SerialResult(content, first, second) ==
    LET c1 == ComputeChange(req[first].requestType, req[first].body, content)
        c2 == ComputeChange(req[second].requestType, req[second].body, c1.updatedContent)
    IN c2.updatedContent

\* C1: when two change requests on the same document both succeed, the
\* persisted body is the result of running them one after the other in some
\* order (no applied replacement is lost).
C1_SerialEquivalent ==
    (Accepted("r1") /\ Accepted("r2")) =>
        \E o \in {<<"r1", "r2">>, <<"r2", "r1">>} :
            documents[Doc].content = SerialResult(InitialContent, o[1], o[2])

\* C2: a request whose operation-record or analytics insert fails after its
\* body update leaves body and revision as they were before the request and
\* no operation record of the request.
C2_AllOrNothing ==
    \A r \in Reqs :
        ( /\ req[r].pc = "done"
          /\ req[r].error = "pg"
          /\ req[r].at \in {"opsnap", "opinsert", "analytics"}
          /\ OthersIdle(r) )
        => /\ documents[Doc].content = req[r].document.content
           /\ documents[Doc].content_version = req[r].document.content_version
           /\ RowsOf(r, operations) = {}

\* C3: an accepted request has at least one applied op and raises the
\* persisted revision by exactly 1: its UPDATE step adds 1, no other step of
\* the request changes the revision, and with no other writer the revision
\* after the request is the revision it read plus 1.
C3_RevisionPlusOne ==
    /\ [](\A r \in Reqs :
            Accepted(r) =>
                /\ AppliedCount(r) >= 1
                /\ UpdateIssued(r)
                /\ req[r].documentVersion >= req[r].document.content_version + 1
                /\ OthersIdle(r) =>
                      documents[Doc].content_version
                          = req[r].document.content_version + 1)
    /\ [][\A r \in Reqs :
            req'[r] # req[r] =>
                documents'[Doc].content_version =
                    IF req[r].pc = "update" /\ req'[r].pc # "done"
                    THEN documents[Doc].content_version + 1
                    ELSE documents[Doc].content_version]_vars

C3_Witness ==
    /\ Accepted("r1") /\ Accepted("r2")
    /\ documents[Doc].content_version = 3

\* C9: the sequence numbers of a document's operation records are 1, 2, ..., n
\* in insertion order.
C9_ContiguousSequence ==
    \A i \in 1..Len(operations) : operations[i].sequence_number = i

\* C10: a request in which no op finds its textToReplace fails with status
\* 400 and leaves body, revision, operation log and analytics as they were.
C10_NoMatchIs400 ==
    \A r \in Reqs :
        ( /\ req[r].pc = "done"
          /\ req[r].at = "permission"
          /\ req[r].error \notin {"pg", "ForbiddenError"}
          /\ \A i \in 1..Len(BodyOps(req[r].body)) :
                IndexOf(req[r].document.content,
                        BodyOps(req[r].body)[i].textToReplace) = -1 )
        => /\ req[r].status = 400
           /\ WroteNothing(r)

(***************************************************************************)
(* Properties of the authorization gate                                    *)
(***************************************************************************)

\* The request went past both permission checks
GatePassed(r) ==
    \/ req[r].pc \in {"update", "opsnap", "opinsert", "analytics"}
    \/ /\ req[r].pc = "done"
       /\ \/ req[r].at \in {"update", "opsnap", "opinsert", "analytics"}
          \/ req[r].at = "permission" /\ req[r].error \in {"BadRequestError", "ValidationError"}

\* The request was turned away by the access query or a permission check
GateDenied(r) ==
    /\ req[r].pc = "done"
    /\ \/ req[r].at = "access" /\ req[r].error = "NotFoundError"
       \/ req[r].at = "permission" /\ req[r].error = "ForbiddenError"

ClaimedAuthorized(user) ==
    \/ documents[Doc].owner_id = user
    \/ \E c \in ActiveBindings(Doc, user) : c.permission_level \in {"owner", "editor"}
    \/ /\ documents[Doc].is_public
       /\ ~\E c \in ActiveBindings(Doc, user) : c.permission_level \in {"viewer", "commenter"}

\* C4: a request by an authenticated caller on an existing document is
\* authorized iff the caller is the owner, or holds an active owner/editor
\* binding, or the document is public and the caller holds no active
\* viewer/commenter binding.
C4_AuthorizedIff ==
    \A r \in Reqs :
        (req[r].id = Doc /\ (GatePassed(r) \/ GateDenied(r)))
        => (GatePassed(r) <=> ClaimedAuthorized(req[r].user))

\* C5: every request denied by the authorization gate on an existing
\* document is answered 403 and changes nothing.
C5_DeniedIs403 ==
    \A r \in Reqs :
        (req[r].id = Doc /\ GateDenied(r))
        => /\ req[r].status = 403
           /\ WroteNothing(r)

(***************************************************************************)
(* Properties of the Collaboration Hub                                     *)
(***************************************************************************)

\* The client's "document-updated" listener (CollaborationManager): every
\* message received is handed to onDocumentChange, none is dropped; these are
\* the updates a session has applied for one document, in order
AppliedUpdates(s, documentId) ==
    SelectSeq(received[s],
              LAMBDA m : m.kind = "document-updated" /\ m.documentId = documentId)

\* The message kinds the Hub relays from one session to the others of a room
ForwardedKinds == {"document-updated", "cursor-update", "typing-start", "typing-stop"}

\* C6: the Hub changes the persisted body of document d on behalf of a
\* session, and delivers that session's document-updated, cursor and typing
\* messages to d's peers, only while the session is joined to d's room.
C6_OnlyJoinedSenders ==
    [][ /\ \A s \in Sockets :
              ( /\ sock[s].change.pc = "update"
                /\ sock'[s].change.pc = "broadcast"
                /\ documents' # documents )
              => s \in rooms[sock[s].change.documentId]
        /\ \A p \in Sockets :
              Len(received'[p]) > Len(received[p]) =>
                  LET m == received'[p][Len(received'[p])]
                  IN m.kind \in ForwardedKinds => m.socketId \in rooms[m.documentId]
      ]_vars

\* C7: for every session and every document, the versions of the successive
\* document-updated messages the session applies are strictly increasing.
C7_VersionsIncrease ==
    \A s \in Sockets, id \in {Doc, MissingDoc} :
        LET updates == AppliedUpdates(s, id)
        IN \A i \in 1..(Len(updates) - 1) :
              updates[i].version < updates[i + 1].version

(***************************************************************************)
(* Properties of the client diff                                           *)
(***************************************************************************)

\* C8: applying the ops of generateChangeRequests(a, b) to a, left to right,
\* each on the first occurrence of its textToReplace, yields exactly b.
C8_DiffRoundTrip ==
    diff.pc = "applied" => diff.content = diff.newText

(***************************************************************************)
(* Properties of the Change Engine: records, batches, shapes, validation   *)
(***************************************************************************)

\* C11: for every successful change request, the number of operation records
\* written for it equals the number of ops its response reports as applied.
C11_RecordsEqualApplied ==
    \A r \in Reqs :
        Accepted(r) => Cardinality(RowsOf(r, operations)) = AppliedCount(r)

C11_Witness ==
    \E r \in Reqs :
        /\ Accepted(r)
        /\ AppliedCount(r) = 2
        /\ Len(req[r].appliedChanges) = 3

\* The request got as far as computing its new body (it was not turned away
\* before, and no query failed)
Computed(r) ==
    /\ req[r].pc \in {"update", "opsnap", "opinsert", "analytics", "done"}
    /\ req[r].pc = "done" =>
          /\ req[r].at \in {"permission", "update", "opsnap", "opinsert", "analytics"}
          /\ req[r].error \notin {"pg", "ForbiddenError", "NotFoundError"}

\* C12: in a batch, every op that is applied is replaced at the position
\* where its textToReplace first occurred in the original body.
C12_AppliedAtOriginalPosition ==
    \A r \in Reqs :
        (Computed(r) /\ req[r].requestType = "multiple") =>
            \A i \in 1..Len(req[r].appliedChanges) :
                LET change == req[r].appliedChanges[i]
                IN change.applied =>
                      change.position =
                          IndexOf(req[r].document.content, change.textReplaced)

\* The outcome of the compute step as the caller and the tables will see it
Outcome(c) ==
    [status |-> c.status, updatedContent |-> c.updatedContent,
     applied |-> AppliedOnly(c.appliedChanges)]

\* C13: for every body and every op, the single-shape request and the batch
\* holding only that op have the same outcome (status, resulting body and
\* the applied ops that become operation records), and an op that does not
\* match is refused with 400 in both shapes.
C13_SingleEqualsBatchOfOne ==
    \A r \in Reqs :
        (Computed(r) /\ Len(BodyOps(req[r].body)) = 1) =>
            LET op == BodyOps(req[r].body)[1]
                content == req[r].document.content
                single == ComputeChange("single",
                              SingleBody(op.textToReplace, op.newText), content)
                batch == ComputeChange("multiple", BatchBody(<<op>>), content)
            IN /\ Outcome(single) = Outcome(batch)
               /\ IndexOf(content, op.textToReplace) = -1 =>
                     single.status = 400 /\ batch.status = 400

\* C14: an op whose textToReplace is non-empty and occurs in the body and
\* whose newText is empty is accepted in either shape, and the request
\* removes the first occurrence of textToReplace.
C14_EmptyNewTextDeletes ==
    \A r \in Reqs :
        ( /\ Computed(r)
          /\ Len(BodyOps(req[r].body)) = 1
          /\ BodyOps(req[r].body)[1].newText = <<>>
          /\ BodyOps(req[r].body)[1].textToReplace # <<>>
          /\ IndexOf(req[r].document.content,
                     BodyOps(req[r].body)[1].textToReplace) # -1 )
        => LET t == BodyOps(req[r].body)[1].textToReplace
               content == req[r].document.content
               p == IndexOf(content, t)
           IN /\ req[r].error = ""
              /\ AppliedCount(r) = 1
              /\ req[r].updatedContent =
                    SubSeq(content, 1, p) \o SubSeq(content, p + Len(t) + 1, Len(content))

\* C15: every request that fails validation (body in neither shape, invalid
\* document id, invalid field) is answered 400 and writes nothing.
C15_ValidationIs400 ==
    \A r \in Reqs :
        ( /\ req[r].pc = "done"
          /\ req[r].user # Anonymous
          /\ \/ req[r].error = "ValidationError"
             \/ req[r].at = "idle" /\ req[r].requestType = "invalid" )
        => /\ req[r].status = 400
           /\ WroteNothing(r)

(***************************************************************************)
(* Properties of the Collaboration Hub: joins, fan-out, rooms              *)
(***************************************************************************)

\* The messages a step delivered to session p
Delivered(p) == SubSeq(received'[p], Len(received[p]) + 1, Len(received'[p]))

\* The roster of a room as the Hub keeps it
Roster(states, documentId) ==
    IF documentId \in DOMAIN states THEN states[documentId].users ELSE {}

\* The access rule of a join: owner, or public, or an active binding
JoinAllowed(documentId, userId) ==
    /\ documentId \in DOMAIN documents
    /\ \/ documents[documentId].owner_id = userId
       \/ documents[documentId].is_public
       \/ \E c \in collaborators :
             c.document_id = documentId /\ c.user_id = userId /\ c.is_active

\* C16: a session enters a room's roster and is sent document-state only by
\* a join whose document and user passed the access rule; a denied join
\* delivers access-denied to that session alone and changes no roster and no
\* room state.
C16_JoinOnlyAfterAccess ==
    [][ \A s \in Sockets :
          /\ \A d \in {Doc, MissingDoc} :
                ( \/ s \in rooms'[d] \ rooms[d]
                  \/ s \in Roster(documentStates', d) \ Roster(documentStates, d)
                  \/ \E i \in 1..Len(Delivered(s)) :
                        /\ Delivered(s)[i].kind = "document-state"
                        /\ Delivered(s)[i].documentId = d )
                => /\ sock[s].join.documentId = d
                   /\ JoinAllowed(d, sock[s].join.userId)
          /\ ( /\ sock[s].join.pc \in {"documentCheck", "accessQuery", "denied"}
               /\ ~JoinAllowed(sock[s].join.documentId, sock[s].join.userId)
               /\ sock'[s].join # sock[s].join )
             => /\ rooms' = rooms
                /\ documentStates' = documentStates
                /\ \A p \in Sockets \ {s} : received'[p] = received[p]
                /\ \A i \in 1..Len(Delivered(s)) :
                      Delivered(s)[i].kind = "access-denied"
      ]_vars

C16_Witness ==
    \E s \in Sockets, p \in Sockets :
        /\ s \in rooms[Doc]
        /\ \E i \in 1..Len(received[s]) : received[s][i].kind = "document-state"
        /\ p \notin rooms[Doc]
        /\ \E i \in 1..Len(received[p]) :
              received[p][i].kind = "access-denied" /\ received[p][i].documentId = Doc

\* C17: when the Hub fans out a document-change of a session joined to d,
\* every other connected session joined to d receives exactly one
\* document-updated carrying the new body, and nobody else, the sender
\* included, receives anything.
C17_FanOutToPeersOnly ==
    [][ \A s \in Sockets :
          ( /\ sock[s].change.pc = "broadcast"
            /\ sock'[s].change.pc = "idle"
            /\ s \in rooms[sock[s].change.documentId] )
          => \A p \in Sockets :
                IF /\ p # s
                   /\ p \in rooms[sock[s].change.documentId]
                   /\ sock[p].state = "connected"
                THEN /\ Len(Delivered(p)) = 1
                     /\ Delivered(p)[1].kind = "document-updated"
                     /\ Delivered(p)[1].documentId = sock[s].change.documentId
                     /\ Delivered(p)[1].content = sock[s].change.newContent
                ELSE Delivered(p) = <<>>
      ]_vars

C17_Witness ==
    \E s \in Sockets, p \in Sockets :
        /\ p # s
        /\ {s, p} \subseteq rooms[Doc]
        /\ \E i \in 1..Len(received[p]) :
              /\ received[p][i].kind = "document-updated"
              /\ received[p][i].socketId = s
        /\ \A i \in 1..Len(received[s]) : received[s][i].kind # "document-updated"
        /\ sent.changes >= 1

\* C18: when a joined session sends leave-document for d, it leaves d's
\* room and roster and the remaining peers receive user-left for it; from
\* then on it receives no broadcast for d.
C18_LeaveRemovesSession ==
    [][ \A s \in Sockets, d \in {Doc, MissingDoc} :
          /\ (d \in sock'[s].left \ sock[s].left)
             => /\ s \notin rooms'[d]
                /\ s \notin Roster(documentStates', d)
                /\ \A p \in rooms[d] \ {s} :
                      sock[p].state = "connected" =>
                          \E i \in 1..Len(Delivered(p)) :
                              /\ Delivered(p)[i].kind = "user-left"
                              /\ Delivered(p)[i].socketId = s
          /\ (d \in sock[s].left /\ d \in sock'[s].left)
             => \A i \in 1..Len(Delivered(s)) : Delivered(s)[i].documentId # d
      ]_vars

\* C19: a room is in the Hub's registry only while at least one session is
\* joined to it.
C19_RoomOnlyWhileJoined ==
    \A d \in DOMAIN documentStates :
        /\ documentStates[d].users # {}
        /\ rooms[d] # {}

\* C20: when the Hub has handled a document-change on an existing document,
\* the version it caches for the room and the version it broadcasts in
\* document-updated equal the persisted revision that the change's own
\* UPDATE produced.
C20_CachedVersionIsPersisted ==
    [][ \A s \in Sockets :
          ( /\ sock[s].change.pc = "broadcast"
            /\ sock'[s].change.pc = "idle"
            /\ sock[s].change.documentId \in DOMAIN documents )
          => /\ documentStates'[sock[s].change.documentId].version
                   = sock[s].change.written
             /\ \A p \in Sockets : \A i \in 1..Len(Delivered(p)) :
                   Delivered(p)[i].kind = "document-updated" =>
                       Delivered(p)[i].version = sock[s].change.written
      ]_vars

(***************************************************************************)
(* Properties: request shapes, the diff's result                           *)
(***************************************************************************)

\* C24: a request body that carries both the batch field `changes` and the
\* single-shape fields has no side effect, and once it has passed the access
\* checks it is rejected with 400.
C24_MixedShapeRejected ==
    \A r \in Reqs :
        ( /\ req[r].pc = "done"
          /\ req[r].body.hasChanges
          /\ req[r].body.hasSingle )
        => /\ WroteNothing(r)
           /\ Computed(r) => req[r].status = 400

\* C25: generateChangeRequests(a, b) returns the empty list if and only if
\* a equals b.
C25_EmptyIffEqual ==
    diff.pc \in {"apply", "applied"} =>
        (diff.changes = <<>> <=> diff.oldText = diff.newText)

\* The last resort was needed: the texts differ and neither the word diff
\* nor the character diff reports a change
C25_Witness ==
    /\ diff.pc \in {"apply", "applied"}
    /\ diff.oldText # diff.newText
    /\ findWordLevelChanges(diff.oldText, diff.newText) = <<>>
    /\ findTextChanges(diff.oldText, diff.newText) = <<>>
    /\ diff.changes # <<>>

\* `short` is `long` with one contiguous, non-empty span removed
SpanRemoved(long, short) ==
    \E i \in 1..Len(long) : \E j \in i..Len(long) :
        short = SubSeq(long, 1, i - 1) \o SubSeq(long, j + 1, Len(long))

\* C26: for an edit that only deletes one span the diff returns exactly one
\* op whose newText is empty; for an edit that only inserts one span it
\* returns exactly one op whose textToReplace is empty.
C26_PureDeleteAndInsert ==
    diff.pc \in {"apply", "applied"} =>
        /\ SpanRemoved(diff.oldText, diff.newText) =>
              Len(diff.changes) = 1 /\ diff.changes[1].newText = <<>>
        /\ SpanRemoved(diff.newText, diff.oldText) =>
              Len(diff.changes) = 1 /\ diff.changes[1].textToReplace = <<>>

\* C27: once a session's transport has closed and its handlers have
\* finished, the session is in no room's roster.
C27_ClosedSessionInNoRoster ==
    \A s \in Sockets :
        ( /\ sock[s].state = "disconnected"
          /\ sock[s].join.pc = "idle"
          /\ sock[s].change.pc = "idle" )
        => \A d \in {Doc, MissingDoc} : s \notin Roster(documentStates, d)

(***************************************************************************)
(* Properties: order of the broadcasts, the snapshot of a joiner           *)
(***************************************************************************)

\* The cursor, typing and content broadcasts of a room that p has observed
ObservedOrders(p, documentId) ==
    LET F[i \in 0..Len(received[p])] ==
            IF i = 0 THEN <<>>
            ELSE IF /\ received[p][i].kind \in ForwardedKinds
                    /\ received[p][i].documentId = documentId
                 THEN Append(F[i - 1], received[p][i].order)
                 ELSE F[i - 1]
    IN F[Len(received[p])]

\* C21: within one room, every peer observes the cursor, typing and content
\* broadcasts in the order in which the Hub received the originating
\* messages.
C21_BroadcastsInReceiptOrder ==
    \A p \in Sockets : \A documentId \in {Doc, MissingDoc} :
        LET orders == ObservedOrders(p, documentId)
        IN \A i \in 1..Len(orders) : \A j \in 1..Len(orders) :
              i < j => orders[i] < orders[j]

\* C22: the document-state sent to a joining session lists every other
\* session of the roster with its latest cursor position and its typing
\* flag: a peer whose latest typing-start for the room has no later
\* typing-stop is listed with isTyping true.
C22_SnapshotListsPeers ==
    [][\A s \in Sockets :
          \A i \in 1..Len(Delivered(s)) :
              LET m == Delivered(s)[i]
              IN m.kind = "document-state" =>
                    m.currentUsers =
                        {[socketId |-> q,
                          position |-> IF q \in DOMAIN userStates
                                       THEN userStates[q].position ELSE 0,
                          isTyping |-> sock[q].typing = m.documentId]
                         : q \in Roster(documentStates', m.documentId) \ {s}}]_vars

(***************************************************************************)
(* Properties: the revision under every writer, the client's manager       *)
(***************************************************************************)

\* C23: every step that changes a document's persisted body (a Change Engine
\* request, a Hub document-change, or PUT /documents/{id} with a content
\* field) strictly increases that document's revision in the same step.
C23_BodyChangeBumpsRevision ==
    [][\A id \in DOMAIN documents :
          documents'[id].content # documents[id].content =>
              documents'[id].content_version > documents[id].content_version]_vars

\* C28: whenever the socket fires connect while documentId and userId are
\* set, the manager emits join-document for that document and user.
C28_RejoinOnConnect ==
    [][(~manager.connected /\ manager'.connected /\ Bound(manager)) =>
          \E i \in 1..Len(manager'.out) :
              manager'.out[i] =
                  Event("join-document", manager.documentId, manager.userId)]_vars

SendingKinds == {"cursor-update", "typing-start", "typing-stop", "document-change"}

\* C29: the manager emits cursor-update, typing-start, typing-stop and
\* document-change only between a joinDocument and the next leaveDocument or
\* disconnect, each with the documentId and userId of the latest
\* joinDocument, and a typing timer that was pending at a leaveDocument
\* emits nothing.
C29_EmitsOnlyWhileJoined ==
    [][ /\ \A i \in 1..Len(manager'.out) :
              manager'.out[i].kind \in SendingKinds =>
                  /\ manager.session.open
                  /\ manager'.out[i].documentId = manager.session.documentId
                  /\ manager'.out[i].userId = manager.session.userId
        /\ (manager'.step = "timer" /\ manager.timerStale) => manager'.out = <<>>
      ]_vars

\* C30: while the socket stays connected, every typing-start emitted for a
\* document is eventually followed by a typing-stop for that document.
C30_TypingStopFollows ==
    \A documentId \in {Doc, MissingDoc} :
        (documentId \in manager.typingOpen /\ manager.connected)
            ~> (documentId \notin manager.typingOpen \/ ~manager.connected)

====
